---- MODULE Spec2Model ----
(***************************************************************************)
(* Model of the Linux Foundation CFP Telegram bot:                         *)
(*   src/cfp_scraper.py  the listing and the detail extractor              *)
(*   src/main.py         the /cfp command and the button callback          *)
(* Text is modelled by TLA+ strings, a parsed tag by the sequence of its   *)
(* text pieces, Python's Optional[str] by a record that tells None from "". *)
(***************************************************************************)
EXTENDS Integers, Sequences, FiniteSets, TLC

(***************************************************************************)
(* Bounds of the model.                                                    *)
(***************************************************************************)
MaxMeta == 2
MaxEntries == 2
MaxIbox == 2
MaxCols == 2
MaxLi == 2
MaxCfp == 2

(***************************************************************************)
(* State.  Each specification below runs one part of the program and       *)
(* leaves the variables of the other parts alone.                          *)
(***************************************************************************)
VARIABLES
    \* fetch_cfp_events, the loop over the meta items of one entry
    meta_items,   \* the meta items of the entry, in document order
    meta_idx,     \* how many of them the loop has processed
    meta_vals,    \* date_val, location_val, type_val, status_val
    meta_prev,    \* the four values before the last pass of the loop
    \* fetch_cfp_events, one call
    list_http,    \* what the GET of the listing page meets
    list_pc,      \* where the call is
    list_gets,    \* GET requests the call has made
    list_entries, \* soup.select("div.c-entry")
    list_i,       \* entries the loop has passed
    list_events,  \* events
    \* fetch_event_details, one call
    det_http,     \* what the GET of the event page meets
    det_pc,       \* where the call is
    det_gets,     \* GET requests the call has made
    det_iboxes,   \* soup.select("div.ibox")
    det_box,      \* event_box: a position in det_iboxes, 0 for None
    det_ev,       \* title, start, end, location
    det_cfp_box,  \* cfp_box: a position in det_iboxes, 0 for None
    det_cfp,      \* opens, closes, timezone, notifications, schedule
    det_result,   \* the CfpEventDetails returned, in a sequence
    \* the bot, one chat
    chat_data,    \* context.chat_data["cfp_token_map"], in a sequence
    bot_pc,       \* the handler that runs, "idle" between updates
    bot_update,   \* the update being handled, or handled last
    bot_reply,    \* the last text the handler sent or edited in
    bot_url,      \* the url the button handler fetches, in a sequence
    bot_calls,    \* scraper calls the handler has made
    bot_msgs,     \* the listing messages sent so far, with their buttons
    bot_recent,   \* the records of the last /cfp that returned any
    bot_cmds      \* /cfp commands received

metaVars == <<meta_items, meta_idx, meta_vals, meta_prev>>
listVars == <<list_http, list_pc, list_gets, list_entries, list_i, list_events>>

detVars ==
    <<det_http, det_pc, det_gets, det_iboxes, det_box, det_ev, det_cfp_box,
      det_cfp, det_result>>

botVars ==
    <<chat_data, bot_pc, bot_update, bot_reply, bot_url, bot_calls, bot_msgs,
      bot_recent, bot_cmds>>

vars == <<metaVars, listVars, detVars, botVars>>

metaOthers == <<listVars, detVars, botVars>>
listOthers == <<metaVars, detVars, botVars>>
detOthers == <<metaVars, listVars, botVars>>

(***************************************************************************)
(* Python str operations.                                                  *)
(***************************************************************************)
IsSpace(c) == c \in {" ", "\t", "\n", "\r"}

RECURSIVE LStrip(_)
LStrip(s) ==
    IF Len(s) = 0 THEN s
    ELSE IF IsSpace(SubSeq(s, 1, 1)) THEN LStrip(SubSeq(s, 2, Len(s)))
    ELSE s

RECURSIVE RStrip(_)
RStrip(s) ==
    IF Len(s) = 0 THEN s
    ELSE IF IsSpace(SubSeq(s, Len(s), Len(s))) THEN RStrip(SubSeq(s, 1, Len(s) - 1))
    ELSE s

\* str.strip()
Strip(s) == RStrip(LStrip(s))

LowerChar(c) ==
    CASE c = "A" -> "a" [] c = "B" -> "b" [] c = "C" -> "c" [] c = "D" -> "d"
      [] c = "E" -> "e" [] c = "F" -> "f" [] c = "G" -> "g" [] c = "H" -> "h"
      [] c = "I" -> "i" [] c = "J" -> "j" [] c = "K" -> "k" [] c = "L" -> "l"
      [] c = "M" -> "m" [] c = "N" -> "n" [] c = "O" -> "o" [] c = "P" -> "p"
      [] c = "Q" -> "q" [] c = "R" -> "r" [] c = "S" -> "s" [] c = "T" -> "t"
      [] c = "U" -> "u" [] c = "V" -> "v" [] c = "W" -> "w" [] c = "X" -> "x"
      [] c = "Y" -> "y" [] c = "Z" -> "z" [] OTHER -> c

\* str.lower()
RECURSIVE Lower(_)
Lower(s) ==
    IF Len(s) = 0 THEN s
    ELSE LowerChar(SubSeq(s, 1, 1)) \o Lower(SubSeq(s, 2, Len(s)))

\* str.startswith(p)
StartsWith(s, p) == Len(s) >= Len(p) /\ SubSeq(s, 1, Len(p)) = p

\* sub in s
Contains(s, sub) ==
    \E i \in 1..(Len(s) - Len(sub) + 1) : SubSeq(s, i, i + Len(sub) - 1) = sub

\* s.split(":", 1)[-1]
RECURSIVE AfterFirstColon(_)
AfterFirstColon(s) ==
    IF ~Contains(s, ":") THEN s
    ELSE IF SubSeq(s, 1, 1) = ":" THEN SubSeq(s, 2, Len(s))
    ELSE AfterFirstColon(SubSeq(s, 2, Len(s)))

\* s.rsplit(":", 1)[-1]
RECURSIVE AfterLastColon(_)
AfterLastColon(s) ==
    IF ~Contains(s, ":") THEN s ELSE AfterLastColon(AfterFirstColon(s))

(***************************************************************************)
(* Optional[str]: None, or a string that may be empty.                     *)
(***************************************************************************)
None == [some |-> FALSE, v |-> ""]
Some(s) == [some |-> TRUE, v |-> s]

\* bool(x) of an Optional[str]
Truthy(o) == o.some /\ o.v # ""

\* a or b
OrElse(a, b) == IF Truthy(a) THEN a ELSE b

(***************************************************************************)
(* A tag: whether the selector found it, and its text pieces in document   *)
(* order.  A tag that exists is truthy whatever it holds.                  *)
(***************************************************************************)
NoTag == [exists |-> FALSE, strings |-> <<>>]
Tag(pieces) == [exists |-> TRUE, strings |-> pieces]

\* Tag.get_text(sep, strip=True): every piece stripped, the empty ones
\* dropped, the rest joined by sep.
RECURSIVE GetText(_, _)
GetText(pieces, sep) ==
    IF Len(pieces) = 0 THEN ""
    ELSE LET h == Strip(Head(pieces))
             t == GetText(Tail(pieces), sep)
         IN  IF h = "" THEN t
             ELSE IF t = "" THEN h
             ELSE h \o sep \o t

\* _text_or_none
text_or_none(node) ==
    IF ~node.exists THEN None
    ELSE LET text == GetText(node.strings, "")
         IN  IF text = "" THEN None ELSE Some(text)

(***************************************************************************)
(* fetch_cfp_events: the loop over the meta items of one entry.            *)
(***************************************************************************)
NoMeta == [date |-> None, location |-> None, type |-> None, status |-> None]

IsInfo(item) == item.classes # {} /\ "is-info" \in item.classes

LabelOf(item) == text_or_none(item.label)
ValueOf(item) == text_or_none(item.value)

\* Which of the three keys a label selects, "" for none of them.
KeyOf(label_text) ==
    LET label_key == Lower(label_text)
    IN  IF Contains(label_key, "date") THEN "date"
        ELSE IF Contains(label_key, "location") THEN "location"
        ELSE IF Contains(label_key, "type") THEN "type"
        ELSE ""

meta_step_overwrite(acc, item) ==
    LET label_text == LabelOf(item)
        value_text == ValueOf(item)
    IN  IF ~Truthy(label_text) /\ IsInfo(item)
          THEN [acc EXCEPT !.status = value_text]
        ELSE IF ~Truthy(label_text) THEN acc
        ELSE LET k == KeyOf(label_text.v)
             IN  IF k = "date" THEN [acc EXCEPT !.date = value_text]
                 ELSE IF k = "location" THEN [acc EXCEPT !.location = value_text]
                 ELSE IF k = "type" THEN [acc EXCEPT !.type = value_text]
                 ELSE acc

meta_step_label_only(acc, item) ==
    LET label_text == LabelOf(item)
        value_text == ValueOf(item)
    IN  IF ~Truthy(label_text)
          THEN [acc EXCEPT !.status = OrElse(value_text, acc.status)]
        ELSE LET k == KeyOf(label_text.v)
             IN  IF k = "date" THEN [acc EXCEPT !.date = OrElse(value_text, acc.date)]
                 ELSE IF k = "location"
                   THEN [acc EXCEPT !.location = OrElse(value_text, acc.location)]
                 ELSE IF k = "type" THEN [acc EXCEPT !.type = OrElse(value_text, acc.type)]
                 ELSE acc

\* One pass of the loop body over a meta item.
meta_step(acc, item) ==
    LET label_text == LabelOf(item)
        value_text == ValueOf(item)
    IN  IF ~Truthy(label_text) /\ IsInfo(item)
          THEN [acc EXCEPT !.status = OrElse(value_text, acc.status)]
        ELSE IF ~Truthy(label_text) THEN acc
        ELSE LET k == KeyOf(label_text.v)
             IN  IF k = "date" THEN [acc EXCEPT !.date = OrElse(value_text, acc.date)]
                 ELSE IF k = "location"
                   THEN [acc EXCEPT !.location = OrElse(value_text, acc.location)]
                 ELSE IF k = "type" THEN [acc EXCEPT !.type = OrElse(value_text, acc.type)]
                 ELSE acc

RECURSIVE meta_loop(_, _)
meta_loop(acc, items) ==
    IF Len(items) = 0 THEN acc
    ELSE meta_loop(meta_step(acc, Head(items)), Tail(items))

(***************************************************************************)
(* fetch_cfp_events: title and link of one entry, and the record appended. *)
(* A title tag (.c-entry__title a) also tells whether it has an href and   *)
(* the attribute's value as written in the page.                           *)
(***************************************************************************)
Origin == "https://sessionize.com"

NoTitleTag == [exists |-> FALSE, strings |-> <<>>, has_href |-> FALSE, href |-> ""]
TitleTag(pieces) == [exists |-> TRUE, strings |-> pieces, has_href |-> FALSE, href |-> ""]
TitleLink(pieces, h) == [exists |-> TRUE, strings |-> pieces, has_href |-> TRUE, href |-> h]

entry_title(title_tag) ==
    LET t == text_or_none(title_tag)
    IN  IF Truthy(t) THEN t.v ELSE ""

entry_link_unstripped(title_tag) ==
    LET href == IF title_tag.exists /\ title_tag.has_href THEN title_tag.href ELSE ""
    IN  IF href # "" /\ StartsWith(href, "/") THEN Origin \o href ELSE href

entry_link(title_tag) ==
    LET href == IF title_tag.exists /\ title_tag.has_href
                  THEN Strip(title_tag.href) ELSE ""
    IN  IF href # "" /\ StartsWith(href, "/") THEN Origin \o href ELSE href

\* The CfpEvent built from one div.c-entry.
entry_event(entry) ==
    LET m == meta_loop(NoMeta, entry.metas)
    IN  [title |-> entry_title(entry.title_tag),
         link |-> entry_link(entry.title_tag),
         date |-> m.date,
         location |-> m.location,
         event_type |-> m.type,
         status |-> m.status]

append_event_titled_only(events, entry) ==
    IF entry.title_tag.exists THEN Append(events, entry_event(entry)) ELSE events

\* events.append(CfpEvent(...))
append_event(events, entry) == Append(events, entry_event(entry))

(***************************************************************************)
(* The page fetch.  A GET either raises (no connection, timeout) or        *)
(* returns a response with a status and a body; raise_for_status raises on *)
(* a 4xx or 5xx status.                                                    *)
(***************************************************************************)
GetRaises == [kind |-> "raise", status |-> 0, page |-> <<>>]
Response(status, page) == [kind |-> "response", status |-> status, page |-> page]

raise_for_status(resp) == resp.status >= 400 /\ resp.status < 600

HttpFails(http) == http.kind = "raise" \/ raise_for_status(http)

(***************************************************************************)
(* fetch_event_details.  A container (div.ibox) is modelled by what the    *)
(* selectors of the extractor find in it: its headings, its sub-blocks     *)
(* (.row .col-sm-6 and .col-sm-12, in document order), the timezone note   *)
(* and the list items.                                                     *)
(***************************************************************************)
\* A sub-block: its class, its label (.font-bold), its value area (h2) and
\* the segments of the value area (h2 .block).
Col(wide, bold, h2, blocks) ==
    [wide |-> wide, bold |-> bold, h2 |-> h2, blocks |-> blocks]

NoNote == [exists |-> FALSE, strings |-> <<>>, strong |-> NoTag]

Ibox(h4, h5, cols, tz_small, lis) ==
    [h4 |-> h4, h5 |-> h5, cols |-> cols, tz_small |-> tz_small, lis |-> lis]

HeaderOf(ibox, header_tag) == IF header_tag = "h4" THEN ibox.h4 ELSE ibox.h5

find_ibox_by_header_nonempty(iboxes, header_tag, header_text) ==
    LET hit == {i \in 1..Len(iboxes) :
                  LET header == HeaderOf(iboxes[i], header_tag)
                  IN  /\ header.exists
                      /\ GetText(header.strings, "") # ""
                      /\ Contains(Lower(GetText(header.strings, "")), Lower(header_text))}
    IN  IF hit = {} THEN 0 ELSE CHOOSE i \in hit : \A j \in hit : i <= j

\* The position of the first container whose header holds header_text,
\* 0 for None.
find_ibox_by_header(iboxes, header_tag, header_text) ==
    LET hit == {i \in 1..Len(iboxes) :
                  LET header == HeaderOf(iboxes[i], header_tag)
                  IN  /\ header.exists
                      /\ Contains(Lower(GetText(header.strings, "")), Lower(header_text))}
    IN  IF hit = {} THEN 0 ELSE CHOOSE i \in hit : \A j \in hit : i <= j

ColLabel(col) ==
    LET t == text_or_none(col.bold)
    IN  IF Truthy(t) THEN t.v ELSE ""

\* The loops that read a pair of labelled values (event starts/ends, call
\* opens/closes): the last sub-block of each label decides.
RECURSIVE pair_loop(_, _, _, _)
pair_loop(acc, cols, first_label, second_label) ==
    IF Len(cols) = 0 THEN acc
    ELSE LET col == Head(cols)
             label_l == Lower(ColLabel(col))
             value == text_or_none(col.h2)
             next == IF Contains(label_l, first_label) THEN [acc EXCEPT !.first = value]
                     ELSE IF Contains(label_l, second_label)
                       THEN [acc EXCEPT !.second = value]
                     ELSE acc
         IN  pair_loop(next, Tail(cols), first_label, second_label)

NoPair == [first |-> None, second |-> None]

IsWide(col) == col.wide
IsNarrow(col) == ~col.wide

location_tag_of_first_block(col) ==
    IF Len(col.blocks) > 0 THEN col.blocks[1] ELSE col.h2

\* The tag the location is read from, in a sub-block labelled location.
location_tag_of(col) ==
    IF Len(col.blocks) > 0 THEN col.blocks[Len(col.blocks)] ELSE col.h2

\* for col in ibox.select(".ibox-content .row .col-sm-12"): ... break
RECURSIVE location_loop(_)
location_loop(cols) ==
    IF Len(cols) = 0 THEN NoTag
    ELSE IF Contains(Lower(ColLabel(Head(cols))), "location")
      THEN location_tag_of(Head(cols))
    ELSE location_loop(Tail(cols))

extract_title_date_location(ibox) ==
    LET dates == pair_loop(NoPair, ibox.cols, "event starts", "event ends")
        location_tag == location_loop(SelectSeq(ibox.cols, IsWide))
    IN  [title |-> text_or_none(ibox.h4),
         start |-> dates.first,
         end |-> dates.second,
         location |-> text_or_none(location_tag)]

\* li.get_text(" ", strip=True)
LiText(li) == GetText(li.strings, " ")

li_step_last_colon(acc, li) ==
    LET text == LiText(li)
        low == Lower(text)
        val == Some(Strip(AfterLastColon(text)))
    IN  IF Contains(low, "notifications") THEN [acc EXCEPT !.notifications = val]
        ELSE IF Contains(low, "schedule announced") THEN [acc EXCEPT !.schedule = val]
        ELSE acc

\* One pass of the loop over the list items of the Call for Papers box.
li_step(acc, li) ==
    LET text == LiText(li)
        low == Lower(text)
        val == Some(Strip(AfterFirstColon(text)))
    IN  IF StartsWith(low, "cfp notifications") \/ Contains(low, "notifications")
          THEN [acc EXCEPT !.notifications = val]
        ELSE IF StartsWith(low, "schedule announced") \/ Contains(low, "schedule announced")
          THEN [acc EXCEPT !.schedule = val]
        ELSE acc

NoDates == [notifications |-> None, schedule |-> None]

RECURSIVE li_loop(_, _)
li_loop(acc, lis) ==
    IF Len(lis) = 0 THEN acc
    ELSE li_loop(li_step(acc, Head(lis)), Tail(lis))

extract_cfp_section(ibox) ==
    LET calls == pair_loop(NoPair, SelectSeq(ibox.cols, IsNarrow),
                           "call opens", "call closes")
        tz_small == ibox.tz_small
        timezone == IF tz_small.exists
                      THEN OrElse(text_or_none(tz_small.strong), text_or_none(tz_small))
                      ELSE None
        dates == li_loop(NoDates, ibox.lis)
    IN  [opens |-> calls.first,
         closes |-> calls.second,
         timezone |-> timezone,
         notifications |-> dates.notifications,
         schedule |-> dates.schedule]

NoEventFields == [title |-> None, start |-> None, end |-> None, location |-> None]
NoCfpFields ==
    [opens |-> None, closes |-> None, timezone |-> None,
     notifications |-> None, schedule |-> None]

\* if event_box: ... title = title or _title
event_fields_of(iboxes, event_box) ==
    IF event_box = 0 THEN NoEventFields
    ELSE LET title == text_or_none(iboxes[event_box].h4)
             got == extract_title_date_location(iboxes[event_box])
         IN  [got EXCEPT !.title = OrElse(title, got.title)]

\* if cfp_box: ... = _extract_cfp_section(cfp_box)
cfp_fields_of(iboxes, cfp_box) ==
    IF cfp_box = 0 THEN NoCfpFields ELSE extract_cfp_section(iboxes[cfp_box])

\* CfpEventDetails(...)
details_record(ev, cfp) ==
    [title |-> ev.title,
     event_starts |-> ev.start,
     event_ends |-> ev.end,
     location |-> ev.location,
     cfp_opens |-> cfp.opens,
     cfp_closes |-> cfp.closes,
     cfp_timezone |-> cfp.timezone,
     cfp_notifications |-> cfp.notifications,
     schedule_announced |-> cfp.schedule]

(***************************************************************************)
(* main.py: the token map of /cfp and its lookup by the button handler.    *)
(***************************************************************************)
MaxButtons == 15

Min(a, b) == IF a < b THEN a ELSE b

\* f"ev:{idx}"
Token(idx) == "ev:" \o ToString(idx)

\* events[:n]
Slice(events, n) == SubSeq(events, 1, Min(Len(events), n))

MapOf(shown) ==
    [t \in {Token(i - 1) : i \in 1..Len(shown)} |->
        shown[CHOOSE i \in 1..Len(shown) : Token(i - 1) = t].link]

token_map_of_uncapped(events) == MapOf(events)

\* token_map after the loop over events[:15]
token_map_of(events) == MapOf(Slice(events, MaxButtons))

\* The listing message: the callback_data of its buttons and the links
\* of its lines.
listing_message(events) ==
    LET shown == Slice(events, MaxButtons)
    IN  [keyboard |-> [i \in 1..Len(shown) |-> Token(i - 1)],
         links |-> [i \in 1..Len(shown) |-> shown[i].link]]

\* context.chat_data.get("cfp_token_map", {}).get(data)
lookup(stored, data) ==
    IF stored = <<>> THEN None
    ELSE IF data \in DOMAIN stored[1] THEN Some(stored[1][data])
    ELSE None

(***************************************************************************)
(* Inputs: the meta items an entry may hold.                               *)
(***************************************************************************)
MetaLabels ==
    {NoTag, Tag(<<" ">>), Tag(<<"DATE">>), Tag(<<" Location ">>),
     Tag(<<"Event ", "type">>), Tag(<<"Date/Location">>), Tag(<<"Other">>)}
MetaValues == {NoTag, Tag(<<" \n">>), Tag(<<"A">>), Tag(<<" B ">>)}
MetaClasses == {{}, {"c-entry__meta-item", "is-info"}}
MetaItems ==
    {[label |-> l, value |-> v, classes |-> c] :
        l \in MetaLabels, v \in MetaValues, c \in MetaClasses}

SeqsUpTo(S, n) == UNION {[1..k -> S] : k \in 0..n}

(***************************************************************************)
(* Inputs: listing pages.                                                  *)
(***************************************************************************)
TitleTags ==
    {NoTitleTag,
     TitleLink(<<" Open Source Summit ">>, "/e/abc123"),
     TitleLink(<<"KubeCon">>, " /kubecon "),
     TitleLink(<<" ">>, "https://example.org/x"),
     TitleLink(<<"Relative">>, "e/rel"),
     TitleLink(<<"Blank">>, "  "),
     TitleTag(<<"No href">>)}

DateItem == [label |-> Tag(<<"Event Date">>), value |-> Tag(<<"12 Dec 2024">>), classes |-> {}]
PlaceItem == [label |-> Tag(<<"Location">>), value |-> NoTag, classes |-> {}]
BadgeItem == [label |-> NoTag, value |-> Tag(<<"Closing Soon">>), classes |-> {"is-info"}]

MetaLists == {<<>>, <<DateItem, BadgeItem>>, <<PlaceItem>>}

ListingEntries == {[title_tag |-> t, metas |-> m] : t \in TitleTags, m \in MetaLists}

ListingPages == SeqsUpTo(ListingEntries, MaxEntries)

ErrorPage == <<[title_tag |-> TitleLink(<<"Not found">>, "/"), metas |-> <<>>]>>

ListingHttp ==
    {GetRaises, Response(404, ErrorPage), Response(503, <<>>)}
        \cup {Response(200, p) : p \in ListingPages}

ListIdle ==
    /\ list_http = GetRaises
    /\ list_pc = "idle"
    /\ list_gets = 0
    /\ list_entries = <<>>
    /\ list_i = 0
    /\ list_events = <<>>

(***************************************************************************)
(* Inputs: event pages.  Three families: pages of up to MaxIbox containers *)
(* that differ in their headings, pages whose container varies in its      *)
(* sub-blocks, pages whose Call for Papers container varies in its list.   *)
(***************************************************************************)
ColsA ==
    <<Col(FALSE, Tag(<<"Event starts">>), Tag(<<"1 Jan 2025">>), <<>>),
      Col(FALSE, Tag(<<"Event ends">>), Tag(<<" 3 Jan 2025 ">>), <<>>),
      Col(TRUE, Tag(<<"Location">>), Tag(<<"Venue X", "Springfield, USA">>),
          <<Tag(<<"Venue X">>), Tag(<<"Springfield, USA">>)>>)>>
ColsB ==
    <<Col(TRUE, Tag(<<"EVENT STARTS">>), Tag(<<"2 Feb 2025">>), <<>>),
      Col(TRUE, Tag(<<" location">>), Tag(<<"Rome">>), <<>>)>>

Headings == {NoTag, Tag(<<>>), Tag(<<" ">>), Tag(<<"Event A">>)}

Note(pieces, strong) == [exists |-> TRUE, strings |-> pieces, strong |-> strong]

CfpIbox ==
    Ibox(NoTag, Tag(<<" Call for Papers ">>),
         <<Col(FALSE, Tag(<<"Call opens">>), Tag(<<"1 Oct 2024">>), <<>>),
           Col(FALSE, Tag(<<"Call closes">>), Tag(<<"1 Nov 2024">>), <<>>)>>,
         Note(<<"Times in ", "UTC">>, Tag(<<"UTC">>)),
         <<Tag(<<"CFP Notifications: Monday, 8 December">>),
           Tag(<<"Schedule Announced: Friday">>)>>)

HeaderIboxes ==
    {Ibox(h, NoTag, c, NoNote, <<>>) : h \in Headings, c \in {ColsA, ColsB}}
        \cup {CfpIbox}

HeaderPages == SeqsUpTo(HeaderIboxes, MaxIbox)

LocCols ==
    {Col(w, l, v.h2, v.blocks) :
        w \in BOOLEAN,
        l \in {NoTag, Tag(<<" Location">>), Tag(<<"EVENT LOCATION:">>), Tag(<<"Event starts">>)},
        v \in {[h2 |-> NoTag, blocks |-> <<>>],
               [h2 |-> Tag(<<" Berlin ">>), blocks |-> <<>>],
               [h2 |-> Tag(<<"Venue X", "Springfield, USA">>),
                blocks |-> <<Tag(<<"Venue X">>), Tag(<<"Springfield, USA">>)>>],
               [h2 |-> Tag(<<"Venue Y", " ">>),
                blocks |-> <<Tag(<<"Venue Y">>), Tag(<<" ">>)>>]}}

LocationPages ==
    {<<Ibox(Tag(<<"Event">>), NoTag, cols, NoNote, <<>>)>> :
        cols \in SeqsUpTo(LocCols, MaxCols)}

LiItems ==
    {Tag(<<"CFP Notifications: Monday, 8 December">>),
     Tag(<<"CFP Notifications:">>),
     Tag(<<"CFP ", " NOTIFICATIONS : ", " 10:30 UTC ">>),
     Tag(<<"Speaker notifications sent">>),
     Tag(<<"Schedule Announced: Friday">>),
     Tag(<<"schedule announced">>),
     Tag(<<"Schedule \n announced: Friday">>),
     Tag(<<"Notifications and schedule announced: 1 Jan">>),
     Tag(<<"Travel fund: apply">>)}

CfpPages ==
    {<<Ibox(NoTag, Tag(<<"Call for Papers">>), <<>>, NoNote, lis)>> :
        lis \in SeqsUpTo(LiItems, MaxLi)}

DetailPages == HeaderPages \cup LocationPages \cup CfpPages

DetailHttp ==
    {GetRaises, Response(500, <<>>)} \cup {Response(200, p) : p \in DetailPages}

DetIdle ==
    /\ det_http = GetRaises
    /\ det_pc = "idle"
    /\ det_gets = 0
    /\ det_iboxes = <<>>
    /\ det_box = 0
    /\ det_ev = NoEventFields
    /\ det_cfp_box = 0
    /\ det_cfp = NoCfpFields
    /\ det_result = <<>>

(***************************************************************************)
(* Inputs of the bot: the listing pages /cfp may meet, one of them longer  *)
(* than the cap on buttons, the event pages a button may meet, and the     *)
(* callback data of updates that come from no button of a listing.         *)
(***************************************************************************)
BotEntry(tag, k) ==
    [title_tag |-> TitleLink(<<"Event " \o tag \o ToString(k)>>, "/e/" \o tag \o ToString(k)),
     metas |-> <<>>]

BotPage(tag, n) == [k \in 1..n |-> BotEntry(tag, k)]

NoLinkPage ==
    <<[title_tag |-> TitleTag(<<"No href">>), metas |-> <<DateItem>>],
      BotEntry("c", 2),
      [title_tag |-> NoTitleTag, metas |-> <<>>]>>

BotPages ==
    {<<>>, BotPage("a", 1), BotPage("a", MaxButtons + 1), BotPage("b", 2), NoLinkPage}

BotListingHttp ==
    {GetRaises, Response(503, <<>>)} \cup {Response(200, p) : p \in BotPages}

BotDetailHttp ==
    {GetRaises, Response(404, <<>>), Response(200, <<>>),
     Response(200, <<Ibox(Tag(<<"Event A">>), NoTag, ColsA, NoNote, <<>>), CfpIbox>>)}

OtherData == {"", "noop", "ev:x", Token(0), Token(MaxButtons)}

NoUpdate == [kind |-> "none", data |-> "", msg |-> 0]

BotInit ==
    /\ chat_data = <<>>
    /\ bot_pc = "idle"
    /\ bot_update = NoUpdate
    /\ bot_reply = ""
    /\ bot_url = <<>>
    /\ bot_calls = 0
    /\ bot_msgs = <<>>
    /\ bot_recent = <<>>
    /\ bot_cmds = 0

MetaInit ==
    /\ meta_items \in SeqsUpTo(MetaItems, MaxMeta)
    /\ meta_idx = 0
    /\ meta_vals = NoMeta
    /\ meta_prev = NoMeta

MetaIdle ==
    /\ meta_items = <<>>
    /\ meta_idx = 0
    /\ meta_vals = NoMeta
    /\ meta_prev = NoMeta

MetaCurrent == meta_items[meta_idx + 1]

MetaPass ==
    /\ meta_idx < Len(meta_items)
    /\ meta_prev' = meta_vals
    /\ meta_vals' = meta_step(meta_vals, MetaCurrent)
    /\ meta_idx' = meta_idx + 1
    /\ UNCHANGED meta_items
    /\ UNCHANGED metaOthers

\* label absent, info marker present
MetaStatusItem ==
    /\ meta_idx < Len(meta_items)
    /\ ~Truthy(LabelOf(MetaCurrent)) /\ IsInfo(MetaCurrent)
    /\ MetaPass

\* label absent, no marker
MetaSkippedItem ==
    /\ meta_idx < Len(meta_items)
    /\ ~Truthy(LabelOf(MetaCurrent)) /\ ~IsInfo(MetaCurrent)
    /\ MetaPass

\* label present
MetaLabelledItem ==
    /\ meta_idx < Len(meta_items)
    /\ Truthy(LabelOf(MetaCurrent))
    /\ MetaPass

MetaNext == MetaStatusItem \/ MetaSkippedItem \/ MetaLabelledItem

InitMeta == MetaInit /\ ListIdle /\ DetIdle /\ BotInit

SpecMeta == InitMeta /\ [][MetaNext]_vars

(***************************************************************************)
(* Claims about the meta-item loop.                                        *)
(***************************************************************************)
MetaKeys == {"date", "location", "type"}

MetaDone == meta_idx = Len(meta_items)

\* The processed items whose label contains key k, by case-insensitive
\* substring.
LabelContains(k) ==
    {i \in 1..meta_idx :
        /\ Truthy(LabelOf(meta_items[i]))
        /\ Contains(Lower(LabelOf(meta_items[i]).v), k)}

\* The processed items the loop files under key k: the first of "date",
\* "location", "type" that the lower-cased label contains.
Selects(k) ==
    {i \in 1..meta_idx :
        /\ Truthy(LabelOf(meta_items[i]))
        /\ KeyOf(LabelOf(meta_items[i]).v) = k}

SetMax(S) == CHOOSE i \in S : \A j \in S : j <= i

\* C2 as stated: when two or more meta items of the entry have labels
\* containing the same key, the field holds the value of the later item,
\* present or absent.
C2_LaterItemOverwrites ==
    \A k \in MetaKeys :
        Cardinality(LabelContains(k)) >= 2 =>
            meta_vals[k] = ValueOf(meta_items[SetMax(LabelContains(k))])

\* C2 amended: each field holds the value of the last processed item
\* that the loop files under its key and whose value is present; a later
\* item of the key with an absent value leaves the earlier value, and with
\* no such item the field is absent.
C2_LastPresentValueWins ==
    \A k \in MetaKeys :
        LET P == {i \in Selects(k) : Truthy(ValueOf(meta_items[i]))}
        IN  meta_vals[k] = IF P = {} THEN None ELSE ValueOf(meta_items[SetMax(P)])

\* Two items of the same key are processed, the earlier with a value and
\* the later without one, and the earlier value stays.
C2_Witness ==
    /\ MetaDone /\ meta_idx = 2
    /\ Selects("location") = {1, 2}
    /\ Truthy(ValueOf(meta_items[1]))
    /\ ~Truthy(ValueOf(meta_items[2]))
    /\ meta_vals.location = ValueOf(meta_items[1])

\* C4: one pass of the loop changes status only for an item with no label
\* that carries the info marker, and such an item leaves date, location and
\* type alone; an item with no label and no marker changes nothing; an item
\* with a label never changes status.
C4_StatusFrame ==
    meta_idx >= 1 =>
        LET item == meta_items[meta_idx]
            nolabel == ~Truthy(LabelOf(item))
        IN  /\ meta_vals.status # meta_prev.status => nolabel /\ IsInfo(item)
            /\ nolabel /\ IsInfo(item) =>
                  /\ meta_vals.date = meta_prev.date
                  /\ meta_vals.location = meta_prev.location
                  /\ meta_vals.type = meta_prev.type
                  /\ meta_vals.status = OrElse(ValueOf(item), meta_prev.status)
            /\ nolabel /\ ~IsInfo(item) => meta_vals = meta_prev
            /\ ~nolabel => meta_vals.status = meta_prev.status

\* A labelled item set the date, then an item with no label and the marker
\* set status and left the date alone.
C4_Witness ==
    /\ meta_idx = 2
    /\ Truthy(meta_prev.date)
    /\ ~Truthy(LabelOf(meta_items[2])) /\ IsInfo(meta_items[2])
    /\ ~Truthy(meta_prev.status) /\ Truthy(meta_vals.status)
    /\ meta_vals.date = meta_prev.date

(***************************************************************************)
(* fetch_cfp_events, one call, statement by statement.                     *)
(***************************************************************************)
ListInit ==
    /\ list_http \in ListingHttp
    /\ list_pc = "start"
    /\ list_gets = 0
    /\ list_entries = <<>>
    /\ list_i = 0
    /\ list_events = <<>>

ListGet_retry ==
    /\ list_pc = "start"
    /\ list_gets' = list_gets + 1
    /\ list_pc' = IF list_http.kind # "raise" THEN "got"
                  ELSE IF list_gets' < 2 THEN "start" ELSE "raised"
    /\ UNCHANGED <<list_http, list_entries, list_i, list_events>>
    /\ UNCHANGED listOthers

\* resp = s.get(CFP_URL, timeout=20)
ListGet ==
    /\ list_pc = "start"
    /\ list_gets' = list_gets + 1
    /\ list_pc' = IF list_http.kind = "raise" THEN "raised" ELSE "got"
    /\ UNCHANGED <<list_http, list_entries, list_i, list_events>>
    /\ UNCHANGED listOthers

\* resp.raise_for_status(); soup = ...; entries = soup.select("div.c-entry")
ListRaiseForStatus ==
    /\ list_pc = "got"
    /\ IF raise_for_status(list_http)
         THEN list_pc' = "raised" /\ UNCHANGED list_entries
         ELSE list_pc' = "entries" /\ list_entries' = list_http.page
    /\ UNCHANGED <<list_http, list_gets, list_i, list_events>>
    /\ UNCHANGED listOthers

\* one pass of: for entry in entries
ListEntry ==
    /\ list_pc = "entries"
    /\ list_i < Len(list_entries)
    /\ list_events' = append_event(list_events, list_entries[list_i + 1])
    /\ list_i' = list_i + 1
    /\ UNCHANGED <<list_http, list_pc, list_gets, list_entries>>
    /\ UNCHANGED listOthers

\* return events
ListReturn ==
    /\ list_pc = "entries"
    /\ list_i = Len(list_entries)
    /\ list_pc' = "returned"
    /\ UNCHANGED <<list_http, list_gets, list_entries, list_i, list_events>>
    /\ UNCHANGED listOthers

ListNext == ListGet \/ ListRaiseForStatus \/ ListEntry \/ ListReturn

InitListing == ListInit /\ MetaIdle /\ DetIdle /\ BotInit

SpecListing == InitListing /\ [][ListNext]_vars

(***************************************************************************)
(* Claims about fetch_cfp_events.                                          *)
(***************************************************************************)
\* The href of entry k as the page has it, and whether there is one.
\* (Record k is looked up only while the list has one.)
HasHref(k) == list_entries[k].title_tag.exists /\ list_entries[k].title_tag.has_href
RawHref(k) == list_entries[k].title_tag.href

\* C5 as stated: the link is the origin followed by the raw link value when
\* the raw value starts with "/", the raw value unmodified in every other
\* case, "" when there is no link node or no href; it is never None.
C5_LinkFromRawValue ==
    \A k \in 1..Len(list_events) :
        /\ list_events[k].link \in STRING
        /\ list_events[k].link =
              IF ~HasHref(k) THEN ""
              ELSE IF StartsWith(RawHref(k), "/") THEN Origin \o RawHref(k)
              ELSE RawHref(k)

\* C5 amended: the same rule on the raw link value with its leading and
\* trailing whitespace removed: the origin is prefixed when the trimmed
\* value starts with "/", and otherwise the link is the trimmed value.
C5_LinkFromTrimmedValue ==
    \A k \in 1..Len(list_events) :
        LET trimmed == Strip(RawHref(k))
        IN  /\ list_events[k].link \in STRING
            /\ ~HasHref(k) => list_events[k].link = ""
            /\ HasHref(k) /\ StartsWith(trimmed, "/") =>
                  list_events[k].link = Origin \o trimmed
            /\ HasHref(k) /\ ~StartsWith(trimmed, "/") =>
                  list_events[k].link = trimmed

\* A record was built from an href written with blanks around a path.
C5_Witness ==
    \E k \in 1..Len(list_events) :
        /\ HasHref(k)
        /\ RawHref(k) = " /kubecon "
        /\ list_events[k].link = "https://sessionize.com/kubecon"

\* C6: one record per div.c-entry, in document order, whatever could be
\* located in the entry; an entry with no title node yields title ""; a
\* page without entries yields the empty list, and only a failed fetch
\* makes the call raise.
C6_OneRecordPerEntry ==
    /\ Len(list_events) = list_i
    /\ \A k \in 1..list_i :
          /\ list_events[k] = entry_event(list_entries[k])
          /\ ~list_entries[k].title_tag.exists => list_events[k].title = ""
    /\ list_pc = "returned" =>
          /\ Len(list_events) = Len(list_http.page)
          /\ list_http.page = <<>> => list_events = <<>>
    /\ list_pc = "raised" => HttpFails(list_http)

\* The call returned two records for a page whose first entry has neither
\* a title node nor meta items.
C6_Witness ==
    /\ list_pc = "returned"
    /\ Len(list_entries) = 2
    /\ ~list_entries[1].title_tag.exists /\ list_entries[1].metas = <<>>
    /\ Len(list_events) = 2
    /\ list_events[1].title = ""
    /\ list_events[2].title = "KubeCon"

(***************************************************************************)
(* fetch_event_details, one call, statement by statement.                  *)
(***************************************************************************)
DetInit ==
    /\ det_http \in DetailHttp
    /\ det_pc = "start"
    /\ det_gets = 0
    /\ det_iboxes = <<>>
    /\ det_box = 0
    /\ det_ev = NoEventFields
    /\ det_cfp_box = 0
    /\ det_cfp = NoCfpFields
    /\ det_result = <<>>

\* resp = s.get(url, timeout=20)
DetGet ==
    /\ det_pc = "start"
    /\ det_gets' = det_gets + 1
    /\ det_pc' = IF det_http.kind = "raise" THEN "raised" ELSE "got"
    /\ UNCHANGED <<det_http, det_iboxes, det_box, det_ev, det_cfp_box, det_cfp, det_result>>
    /\ UNCHANGED detOthers

\* resp.raise_for_status(); soup = BeautifulSoup(resp.text, "html.parser")
DetRaiseForStatus ==
    /\ det_pc = "got"
    /\ IF raise_for_status(det_http)
         THEN det_pc' = "raised" /\ UNCHANGED det_iboxes
         ELSE det_pc' = "find" /\ det_iboxes' = det_http.page
    /\ UNCHANGED <<det_http, det_gets, det_box, det_ev, det_cfp_box, det_cfp, det_result>>
    /\ UNCHANGED detOthers

\* event_box = _find_ibox_by_header(soup, "h4", "")
DetFindEventBox ==
    /\ det_pc = "find"
    /\ det_box' = find_ibox_by_header(det_iboxes, "h4", "")
    /\ det_pc' = IF det_box' = 0 THEN "fallback" ELSE "event"
    /\ UNCHANGED <<det_http, det_gets, det_iboxes, det_ev, det_cfp_box, det_cfp, det_result>>
    /\ UNCHANGED detOthers

\* if not event_box: event_box = iboxes[0] if iboxes else None
DetFallback ==
    /\ det_pc = "fallback"
    /\ det_box' = IF Len(det_iboxes) > 0 THEN 1 ELSE 0
    /\ det_pc' = "event"
    /\ UNCHANGED <<det_http, det_gets, det_iboxes, det_ev, det_cfp_box, det_cfp, det_result>>
    /\ UNCHANGED detOthers

\* if event_box: title, start, end, location from it
DetEventFields ==
    /\ det_pc = "event"
    /\ det_ev' = event_fields_of(det_iboxes, det_box)
    /\ det_pc' = "cfp"
    /\ UNCHANGED <<det_http, det_gets, det_iboxes, det_box, det_cfp_box, det_cfp, det_result>>
    /\ UNCHANGED detOthers

\* cfp_box = _find_ibox_by_header(soup, "h5", "Call for Papers") and its
\* fields
DetCfpFields ==
    /\ det_pc = "cfp"
    /\ det_cfp_box' = find_ibox_by_header(det_iboxes, "h5", "Call for Papers")
    /\ det_cfp' = cfp_fields_of(det_iboxes, det_cfp_box')
    /\ det_pc' = "build"
    /\ UNCHANGED <<det_http, det_gets, det_iboxes, det_box, det_ev, det_result>>
    /\ UNCHANGED detOthers

\* return CfpEventDetails(...)
DetReturn ==
    /\ det_pc = "build"
    /\ det_result' = <<details_record(det_ev, det_cfp)>>
    /\ det_pc' = "returned"
    /\ UNCHANGED <<det_http, det_gets, det_iboxes, det_box, det_ev, det_cfp_box, det_cfp>>
    /\ UNCHANGED detOthers

DetNext ==
    \/ DetGet
    \/ DetRaiseForStatus
    \/ DetFindEventBox
    \/ DetFallback
    \/ DetEventFields
    \/ DetCfpFields
    \/ DetReturn

InitDetail == DetInit /\ MetaIdle /\ ListIdle /\ BotInit

SpecDetail == InitDetail /\ [][DetNext]_vars

(***************************************************************************)
(* Claims about fetch_event_details.                                       *)
(***************************************************************************)
\* An optional field as the data model wants it: None, or a string that
\* is not empty and has no blank at either end.
WellFormed(o) == ~o.some \/ (o.v # "" /\ Strip(o.v) = o.v)

\* C1: every optional field of every record returned by fetch_cfp_events
\* and fetch_event_details is None or a non-empty trimmed string, never "";
\* also cfp_notifications and schedule_announced of a list item with
\* nothing after its first colon.
C1_OptionalFieldsNeverEmpty ==
    /\ \A k \in 1..Len(list_events) :
          /\ WellFormed(list_events[k].date)
          /\ WellFormed(list_events[k].location)
          /\ WellFormed(list_events[k].event_type)
          /\ WellFormed(list_events[k].status)
    /\ \A k \in 1..Len(det_result) :
          /\ WellFormed(det_result[k].title)
          /\ WellFormed(det_result[k].event_starts)
          /\ WellFormed(det_result[k].event_ends)
          /\ WellFormed(det_result[k].location)
          /\ WellFormed(det_result[k].cfp_opens)
          /\ WellFormed(det_result[k].cfp_closes)
          /\ WellFormed(det_result[k].cfp_timezone)
          /\ WellFormed(det_result[k].cfp_notifications)
          /\ WellFormed(det_result[k].schedule_announced)

SetMin(S) == CHOOSE i \in S : \A j \in S : i <= j

HeadingText(ibox) == GetText(ibox.h4.strings, "")

\* The call has chosen its primary container.
EventBoxChosen == det_pc \in {"event", "cfp", "build", "returned"}
EventFieldsRead == det_pc \in {"cfp", "build", "returned"}

\* title, event_starts, event_ends and location are those of container b,
\* or absent when b is 0.
EventFieldsFrom(b) ==
    IF b = 0 THEN det_ev = NoEventFields
    ELSE /\ det_ev.title = text_or_none(det_iboxes[b].h4)
         /\ det_ev.start = extract_title_date_location(det_iboxes[b]).start
         /\ det_ev.end = extract_title_date_location(det_iboxes[b]).end
         /\ det_ev.location = extract_title_date_location(det_iboxes[b]).location

\* C3 as stated: the four fields come from the first container whose
\* heading (.ibox-title h4) has non-empty text, a container with an empty
\* heading being passed over; with no such container from the first
\* container; with no container they are absent.
C3_FirstPopulatedHeading ==
    LET populated == {i \in 1..Len(det_iboxes) :
                        det_iboxes[i].h4.exists /\ HeadingText(det_iboxes[i]) # ""}
        b == IF populated # {} THEN SetMin(populated)
             ELSE IF Len(det_iboxes) > 0 THEN 1 ELSE 0
    IN  /\ EventBoxChosen => det_box = b
        /\ EventFieldsRead => EventFieldsFrom(b)

\* C3 amended: the four fields come from the first container that has a
\* heading node (.ibox-title h4), whether or not the node holds text; with
\* no such container from the first container; with no container they are
\* absent.
C3_FirstHeadingNode ==
    LET headed == {i \in 1..Len(det_iboxes) : det_iboxes[i].h4.exists}
        b == IF headed # {} THEN SetMin(headed)
             ELSE IF Len(det_iboxes) > 0 THEN 1 ELSE 0
    IN  /\ EventBoxChosen => det_box = b
        /\ EventFieldsRead => EventFieldsFrom(b)

\* The first container has a blank heading, the second a populated one,
\* and the record was read from the first.
C3_Witness ==
    /\ det_pc = "returned"
    /\ Len(det_iboxes) = 2
    /\ det_iboxes[1].h4.exists /\ HeadingText(det_iboxes[1]) = ""
    /\ HeadingText(det_iboxes[2]) = "Event A"
    /\ det_iboxes[1].cols = ColsB /\ det_iboxes[2].cols = ColsA
    /\ det_box = 1
    /\ det_result[1].title = None
    /\ det_result[1].location = Some("Rome")

\* C7: the location is decided by the first col-sm-12 sub-block of the
\* primary container whose label contains "location", case-insensitively:
\* the text of its last segment when its value area has segments, the
\* text of the whole value area when it has none; absent when no such
\* sub-block exists.
C7_LocationFromFirstBlock ==
    EventFieldsRead /\ det_box # 0 =>
        LET cols == det_iboxes[det_box].cols
            labelled == {i \in 1..Len(cols) :
                           /\ cols[i].wide
                           /\ cols[i].bold.exists
                           /\ Contains(Lower(GetText(cols[i].bold.strings, "")), "location")}
        IN  IF labelled = {} THEN det_ev.location = None
            ELSE LET col == cols[SetMin(labelled)]
                     n == Len(col.blocks)
                 IN  IF n > 0 THEN det_ev.location = text_or_none(col.blocks[n])
                     ELSE det_ev.location = text_or_none(col.h2)

\* Two sub-blocks are labelled location; the first has two segments and
\* the location is its last segment, not the value of the second.
C7_Witness ==
    /\ det_pc = "returned"
    /\ det_box = 1
    /\ Len(det_iboxes[1].cols) = 2
    /\ \A i \in 1..2 :
          /\ det_iboxes[1].cols[i].wide
          /\ Contains(Lower(ColLabel(det_iboxes[1].cols[i])), "location")
    /\ Len(det_iboxes[1].cols[1].blocks) = 2
    /\ det_iboxes[1].cols[2].h2 = Tag(<<" Berlin ">>)
    /\ det_result[1].location = Some("Springfield, USA")

\* What follows the first colon of a text, the whole text without colon.
FirstColon(text) == SetMin({i \in 1..Len(text) : SubSeq(text, i, i) = ":"})
ValueAfterColon(text) ==
    IF \A i \in 1..Len(text) : SubSeq(text, i, i) # ":" THEN text
    ELSE Strip(SubSeq(text, FirstColon(text) + 1, Len(text)))

CfpFieldsRead == det_pc \in {"build", "returned"}

\* Runs of whitespace replaced by one space, none left at either end.
RECURSIVE Collapse(_)
Collapse(s) ==
    IF Len(s) = 0 THEN s
    ELSE IF IsSpace(SubSeq(s, 1, 1))
      THEN LET rest == Collapse(LStrip(s))
           IN  IF rest = "" THEN "" ELSE " " \o rest
    ELSE SubSeq(s, 1, 1) \o Collapse(SubSeq(s, 2, Len(s)))

SingleSpaced(li) == Strip(Collapse(GetText(li.strings, " ")))

\* C8 as stated: a list item of the Call for Papers container whose text,
\* flattened to single-spaced form, contains "notifications" sets
\* cfp_notifications, otherwise one that contains "schedule announced"
\* sets schedule_announced; the value is what follows the first colon of
\* that text, trimmed, or the whole text without a colon; the last
\* matching item in document order decides each field.
C8_SingleSpacedText ==
    CfpFieldsRead /\ det_cfp_box # 0 =>
        LET lis == det_iboxes[det_cfp_box].lis
            low(i) == Lower(SingleSpaced(lis[i]))
            N == {i \in 1..Len(lis) : Contains(low(i), "notifications")}
            S == {i \in 1..Len(lis) :
                    ~Contains(low(i), "notifications")
                    /\ Contains(low(i), "schedule announced")}
        IN  /\ det_cfp.notifications =
                  IF N = {} THEN None
                  ELSE Some(ValueAfterColon(SingleSpaced(lis[SetMax(N)])))
            /\ det_cfp.schedule =
                  IF S = {} THEN None
                  ELSE Some(ValueAfterColon(SingleSpaced(lis[SetMax(S)])))

\* C8 amended: the text of a list item is its text pieces, each trimmed,
\* joined by single spaces, whitespace inside a piece kept as written.  An
\* item whose text contains "notifications" sets cfp_notifications,
\* otherwise one that contains "schedule announced" sets
\* schedule_announced; the value is what follows the first colon, trimmed,
\* or the whole text without a colon; the last matching item in document
\* order decides each field.
C8_ListItemValues ==
    CfpFieldsRead /\ det_cfp_box # 0 =>
        LET lis == det_iboxes[det_cfp_box].lis
            low(i) == Lower(LiText(lis[i]))
            N == {i \in 1..Len(lis) : Contains(low(i), "notifications")}
            S == {i \in 1..Len(lis) :
                    ~Contains(low(i), "notifications")
                    /\ Contains(low(i), "schedule announced")}
        IN  /\ det_cfp.notifications =
                  IF N = {} THEN None
                  ELSE Some(ValueAfterColon(LiText(lis[SetMax(N)])))
            /\ det_cfp.schedule =
                  IF S = {} THEN None
                  ELSE Some(ValueAfterColon(LiText(lis[SetMax(S)])))

\* Two items name notifications; the later one, written in pieces with
\* two colons, decides: the value starts after its first colon.
C8_Witness ==
    /\ det_pc = "returned"
    /\ det_cfp_box = 1
    /\ Len(det_iboxes[1].lis) = 2
    /\ det_iboxes[1].lis[1] = Tag(<<"CFP Notifications: Monday, 8 December">>)
    /\ det_iboxes[1].lis[2] = Tag(<<"CFP ", " NOTIFICATIONS : ", " 10:30 UTC ">>)
    /\ det_result[1].cfp_notifications = Some("10:30 UTC")
    /\ det_result[1].schedule_announced = None

(***************************************************************************)
(* The bot: updates of one chat, handled one at a time.  A handler that    *)
(* fetches runs the call of fetch_cfp_events or fetch_event_details above  *)
(* to its end before it goes on.                                           *)
(***************************************************************************)
\* cfp: reply "Fetching open CFPs...", then call fetch_cfp_events
CfpCommand ==
    /\ bot_pc = "idle"
    /\ bot_cmds < MaxCfp
    /\ \E http \in BotListingHttp : list_http' = http
    /\ list_pc' = "start"
    /\ list_gets' = 0
    /\ list_entries' = <<>>
    /\ list_i' = 0
    /\ list_events' = <<>>
    /\ bot_pc' = "cfp"
    /\ bot_update' = [kind |-> "cfp", data |-> "", msg |-> 0]
    /\ bot_reply' = "Fetching open CFPs... This may take a moment."
    /\ bot_url' = <<>>
    /\ bot_calls' = 1
    /\ bot_cmds' = bot_cmds + 1
    /\ UNCHANGED <<chat_data, bot_msgs, bot_recent>>
    /\ UNCHANGED <<metaVars, detVars>>

\* except Exception: reply the error and return
CfpFailed ==
    /\ bot_pc = "cfp"
    /\ list_pc = "raised"
    /\ bot_reply' = "Error fetching CFPs"
    /\ bot_pc' = "idle"
    /\ UNCHANGED <<chat_data, bot_update, bot_url, bot_calls, bot_msgs, bot_recent, bot_cmds>>
    /\ UNCHANGED <<metaVars, listVars, detVars>>

\* if not events: reply "No open CFPs found." and return
CfpEmpty ==
    /\ bot_pc = "cfp"
    /\ list_pc = "returned"
    /\ list_events = <<>>
    /\ bot_reply' = "No open CFPs found."
    /\ bot_pc' = "idle"
    /\ UNCHANGED <<chat_data, bot_update, bot_url, bot_calls, bot_msgs, bot_recent, bot_cmds>>
    /\ UNCHANGED <<metaVars, listVars, detVars>>

\* build the token map and the keyboard, store the map, reply the listing
CfpListing ==
    /\ bot_pc = "cfp"
    /\ list_pc = "returned"
    /\ list_events # <<>>
    /\ chat_data' = <<token_map_of(list_events)>>
    /\ bot_msgs' = Append(bot_msgs, listing_message(list_events))
    /\ bot_recent' = list_events
    /\ bot_reply' = "listing"
    /\ bot_pc' = "idle"
    /\ UNCHANGED <<bot_update, bot_url, bot_calls, bot_cmds>>
    /\ UNCHANGED <<metaVars, listVars, detVars>>

\* The callback data an update may carry: that of a button of a listing
\* message sent earlier, or any other.
PressedButtons ==
    UNION {{[kind |-> "button", data |-> bot_msgs[m].keyboard[i], msg |-> m] :
               i \in DOMAIN bot_msgs[m].keyboard} : m \in 1..Len(bot_msgs)}
        \cup {[kind |-> "button", data |-> d, msg |-> 0] : d \in OtherData}

\* on_cfp_button: data that does not start with "ev:" is dropped
ButtonIgnored ==
    /\ bot_pc = "idle"
    /\ \E u \in PressedButtons :
          /\ ~StartsWith(u.data, "ev:")
          /\ bot_update' = u
    /\ bot_url' = <<>>
    /\ bot_calls' = 0
    /\ UNCHANGED <<chat_data, bot_pc, bot_reply, bot_msgs, bot_recent, bot_cmds>>
    /\ UNCHANGED <<metaVars, listVars, detVars>>

\* on_cfp_button: if not url, say so and return
ButtonUnknown ==
    /\ bot_pc = "idle"
    /\ \E u \in PressedButtons :
          /\ StartsWith(u.data, "ev:")
          /\ ~Truthy(lookup(chat_data, u.data))
          /\ bot_update' = u
    /\ bot_reply' = "Sorry, I can't find that event anymore. Please run /cfp again."
    /\ bot_url' = <<>>
    /\ bot_calls' = 0
    /\ UNCHANGED <<chat_data, bot_pc, bot_msgs, bot_recent, bot_cmds>>
    /\ UNCHANGED <<metaVars, listVars, detVars>>

\* on_cfp_button: edit in "Fetching event details...", then call
\* fetch_event_details(url)
ButtonFetch ==
    /\ bot_pc = "idle"
    /\ \E u \in PressedButtons :
          /\ StartsWith(u.data, "ev:")
          /\ Truthy(lookup(chat_data, u.data))
          /\ bot_update' = u
          /\ bot_url' = <<lookup(chat_data, u.data).v>>
    /\ \E http \in BotDetailHttp : det_http' = http
    /\ det_pc' = "start"
    /\ det_gets' = 0
    /\ det_iboxes' = <<>>
    /\ det_box' = 0
    /\ det_ev' = NoEventFields
    /\ det_cfp_box' = 0
    /\ det_cfp' = NoCfpFields
    /\ det_result' = <<>>
    /\ bot_pc' = "button"
    /\ bot_reply' = "Fetching event details..."
    /\ bot_calls' = 1
    /\ UNCHANGED <<chat_data, bot_msgs, bot_recent, bot_cmds>>
    /\ UNCHANGED <<metaVars, listVars>>

\* except Exception: edit in the error and return
ButtonFailed ==
    /\ bot_pc = "button"
    /\ det_pc = "raised"
    /\ bot_reply' = "Error fetching details"
    /\ bot_pc' = "idle"
    /\ UNCHANGED <<chat_data, bot_update, bot_url, bot_calls, bot_msgs, bot_recent, bot_cmds>>
    /\ UNCHANGED <<metaVars, listVars, detVars>>

\* edit in the details
ButtonDetails ==
    /\ bot_pc = "button"
    /\ det_pc = "returned"
    /\ bot_reply' = "details"
    /\ bot_pc' = "idle"
    /\ UNCHANGED <<chat_data, bot_update, bot_url, bot_calls, bot_msgs, bot_recent, bot_cmds>>
    /\ UNCHANGED <<metaVars, listVars, detVars>>

Init == MetaIdle /\ ListIdle /\ DetIdle /\ BotInit

Next ==
    \/ CfpCommand
    \/ ListGet
    \/ ListRaiseForStatus
    \/ ListEntry
    \/ ListReturn
    \/ CfpFailed
    \/ CfpEmpty
    \/ CfpListing
    \/ ButtonIgnored
    \/ ButtonUnknown
    \/ ButtonFetch
    \/ DetGet
    \/ DetRaiseForStatus
    \/ DetFindEventBox
    \/ DetFallback
    \/ DetEventFields
    \/ DetCfpFields
    \/ DetReturn
    \/ ButtonFailed
    \/ ButtonDetails

Spec == Init /\ [][Next]_vars

(***************************************************************************)
(* Claims about the bot.                                                   *)
(***************************************************************************)
CantFind == "Sorry, I can't find that event anymore. Please run /cfp again."

\* C9: a failed page fetch (the GET raises, or the status is not a
\* success) makes fetch_cfp_events and fetch_event_details raise after one
\* GET, with no record built, and nothing but a failed fetch makes them
\* raise; the /cfp handler then ends with the error reply and the button
\* handler with the error message, after that one call.
C9_FetchFailurePropagates ==
    /\ list_pc \notin {"idle", "start"} => list_gets = 1
    /\ det_pc \notin {"idle", "start"} => det_gets = 1
    /\ list_pc = "raised" =>
          HttpFails(list_http) /\ list_entries = <<>> /\ list_events = <<>>
    /\ list_pc \in {"entries", "returned"} => ~HttpFails(list_http)
    /\ det_pc = "raised" => HttpFails(det_http) /\ det_result = <<>>
    /\ det_pc \in {"find", "fallback", "event", "cfp", "build", "returned"} =>
          ~HttpFails(det_http)
    /\ bot_pc = "idle" /\ bot_update.kind = "cfp" =>
          /\ bot_calls = 1
          /\ list_pc \in {"raised", "returned"}
          /\ HttpFails(list_http) <=> bot_reply = "Error fetching CFPs"
    /\ bot_pc = "idle" /\ bot_update.kind = "button" /\ bot_url # <<>> =>
          /\ bot_calls = 1
          /\ det_pc \in {"raised", "returned"}
          /\ HttpFails(det_http) <=> bot_reply = "Error fetching details"

\* A listing was shown, then the event page of a button answered with an
\* error status, and the button handler ended with the error message.
C9_Witness ==
    /\ bot_pc = "idle"
    /\ bot_update.kind = "button"
    /\ bot_url # <<>>
    /\ det_http.kind = "response" /\ raise_for_status(det_http)
    /\ det_pc = "raised" /\ det_gets = 1
    /\ bot_reply = "Error fetching details"

\* C10: the stored token map is that of the last /cfp that returned
\* records: ev:0 .. ev:min(n,15)-1, each mapped to the link at its
\* position, and no map before any such /cfp.  A button press with data
\* ev:i fetches details only for the link at position i of those records;
\* with no map, with a token outside the map or with an empty link it
\* fetches nothing and shows the "can't find" message.
C10_ButtonsResolveInLatestListing ==
    LET n == Min(Len(bot_recent), MaxButtons)
        hits == {i \in 0..(n - 1) :
                   Token(i) = bot_update.data /\ bot_recent[i + 1].link # ""}
    IN  /\ bot_recent = <<>> => chat_data = <<>>
        /\ bot_recent # <<>> =>
              /\ Len(chat_data) = 1
              /\ DOMAIN chat_data[1] = {Token(i) : i \in 0..(n - 1)}
              /\ \A i \in 0..(n - 1) : chat_data[1][Token(i)] = bot_recent[i + 1].link
        /\ bot_update.kind = "cfp" /\ bot_pc = "idle" /\ list_pc = "returned"
              /\ list_events # <<>> => bot_recent = list_events
        /\ bot_update.kind = "button" /\ StartsWith(bot_update.data, "ev:") =>
              IF hits = {}
                THEN bot_url = <<>> /\ bot_calls = 0 /\ bot_reply = CantFind
                ELSE \E i \in hits : bot_url = <<bot_recent[i + 1].link>> /\ bot_calls = 1

\* Two listings were sent; the first button of the older one was pressed
\* and the details fetched are those of the first link of the newer one.
C10_Witness ==
    /\ Len(bot_msgs) = 2
    /\ bot_update.kind = "button" /\ bot_update.msg = 1
    /\ bot_update.data = "ev:0"
    /\ bot_url = <<bot_msgs[2].links[1]>>
    /\ bot_msgs[1].links[1] # bot_msgs[2].links[1]
    /\ bot_reply = "details"

====
